---- MODULE Spec2Model ----
(***************************************************************************)
(* Model of the PreachCaster pipeline orchestration.                       *)
(*                                                                         *)
(*  - the CLI orchestrator, docs/planning/scripts/09_full_pipeline_v1.py   *)
(*    (process_video, run_step, get_steps_to_run, the pipeline state file) *)
(*    is specification Spec;                                               *)
(*  - the queue worker, backend/app/workers/tasks.py                       *)
(*    (process_sermon_pipeline, enqueue, reprocess) together with the      *)
(*    sermons API that feeds it is specification SpecQueue;                *)
(*  - the batch coordinator of the CLI (main, process_videos_parallel,     *)
(*    generate_pipeline_report) is specification SpecBatch.                *)
(***************************************************************************)
EXTENDS Integers, Sequences, FiniteSets, TLC

VARIABLES
    \* ---- CLI orchestrator ----
    pc,            \* position of process_video: idle, running, done, raised
    args,          \* the arguments of the current call of process_video
    steps_to_run,  \* the plan computed by get_steps_to_run
    idx,           \* index in steps_to_run of the next loop iteration
    state,         \* the in-memory Pipeline State dict
    result,        \* the result dict of process_video
    saved,         \* contents of <video_id>_state.json (NoState when absent)
    outputs,       \* steps whose output_check path exists on disk
    episode,       \* contents of <video_id>_episode.json (NoFile when absent)
    invoked,       \* per step, subprocess.run calls made in the current run
    last,          \* what the last call of run_step saw and returned
    prev,          \* summary of the run before the current one
    runs,          \* number of calls of process_video so far
    posts,         \* number of WordPress posts created for the video
    \* ---- queue worker ----
    sermon,        \* the sermons row (NoSermon when there is none)
    queue,         \* per RQ queue name, the jobs waiting in it
    qpc,           \* per worker, the position of process_sermon_pipeline
    qlocal,        \* per worker, the local variables of process_sermon_pipeline
    qtrace,        \* per worker, what its pipeline run has called and seen fail
    qruns,         \* number of pipeline runs started so far (the clock)
    jobs,          \* number of jobs enqueued so far
    call,          \* the last call of the sermons API / of tasks.py, and its end
    \* ---- batch coordinator ----
    mpc,           \* position of main: idle, sequential, parallel, report, ...
    video_ids,     \* the list of video ids main works on
    parallel,      \* args.parallel (0 when the option is absent)
    fate,          \* per list position, how its process_video call will end
    begun,         \* per list position, calls of process_video begun
    ended,         \* per list position, calls of process_video ended
    yielded,       \* list positions whose future as_completed has yielded
    results,       \* the results list
    report,        \* the summary of generate_pipeline_report
    exit_code,     \* what main returned
    main_dry_run,  \* args.dry_run of main
    report_file,   \* contents of pipeline_report.json (NoReport when absent)
    \* ---- the state file, byte by byte ----
    file,          \* what <video_id>_state.json holds on disk
    fpc,           \* position of save_json_file: idle, open, crashed
    fold,          \* the record the file held when the last save began
    fnew,          \* the record the last save was called with
    loaded,        \* what the last load_json_file saw and returned
    saves,         \* number of calls of save_json_file so far
    \* ---- the feed monitor, 01_monitor_youtube_v1.py ----
    history,       \* the video ids in all_video_ids.json
    new_videos,    \* the video ids the last run returned as new, in order
    reports,       \* per video, the number of runs that returned it as new
    appeared,      \* the videos some fetched feed has contained
    checks,        \* number of runs of monitor_youtube so far
    full_scans,    \* some run so far was a full scan
    \* ---- the transcript fetcher, 03_fetch_transcript_v1.py ----
    rpc,           \* position of fetch_transcript_with_retry: idle, loop, returned
    max_retries,   \* its argument
    attempt,       \* the loop variable
    tried,         \* the error types of the calls of fetch_transcript so far
    retry_result   \* what fetch_transcript_with_retry returned

cliVars == <<pc, args, steps_to_run, idx, state, result, saved, outputs,
             episode, invoked, last, prev, runs, posts>>
queueVars == <<sermon, queue, qpc, qlocal, qtrace, qruns, jobs, call>>
batchVars == <<mpc, video_ids, parallel, fate, begun, ended, yielded,
               results, report, exit_code, main_dry_run, report_file>>
fileVars == <<file, fpc, fold, fnew, loaded, saves>>
monitorVars == <<history, new_videos, reports, appeared, checks, full_scans>>
retryVars == <<rpc, max_retries, attempt, tried, retry_result>>
vars == <<pc, args, steps_to_run, idx, state, result, saved, outputs,
          episode, invoked, last, prev, runs, posts,
          sermon, queue, qpc, qlocal, qtrace, qruns, jobs, call,
          mpc, video_ids, parallel, fate, begun, ended, yielded,
          results, report, exit_code, main_dry_run, report_file,
          file, fpc, fold, fnew, loaded, saves,
          history, new_videos, reports, appeared, checks, full_scans,
          rpc, max_retries, attempt, tried, retry_result>>

----------------------------------------------------------------------------
\* Bounds of the model

\* calls of process_video per behaviour
MaxRuns == 2

\* jobs enqueued per behaviour
MaxJobs == 2

\* video ids in the list main works on
MaxVideos == 3

\* calls of save_json_file per behaviour
MaxSaves == 2

\* runs of monitor_youtube per behaviour
MaxChecks == 3

\* the largest max_retries fetch_transcript_with_retry is called with
MaxRetries == 3

----------------------------------------------------------------------------
\* Python's None, for every optional value
None == "None"

NoState == [status |-> "absent"]
NoFile == [published |-> "absent"]

----------------------------------------------------------------------------
\* Pipeline step definitions

PIPELINE_STEPS ==
    [s \in 1..7 |->
        CASE s = 1 -> [name |-> "audio",      output_check |-> TRUE]
          [] s = 2 -> [name |-> "transcript", output_check |-> TRUE]
          [] s = 3 -> [name |-> "chunks",     output_check |-> TRUE]
          [] s = 4 -> [name |-> "embeddings", output_check |-> TRUE]
          [] s = 5 -> [name |-> "pinecone",   output_check |-> FALSE]
          [] s = 6 -> [name |-> "ai_content", output_check |-> TRUE]
          [] s = 7 -> [name |-> "guide",      output_check |-> TRUE]]

Steps == DOMAIN PIPELINE_STEPS

StepNames == {PIPELINE_STEPS[s].name : s \in Steps}

\* list(PIPELINE_STEPS.keys())
all_steps == [i \in 1..Cardinality(Steps) |-> i]

Range(q) == {q[i] : i \in DOMAIN q}

\* [PIPELINE_STEPS[s]["name"] for s in q]
NamesOf(q) == [i \in DOMAIN q |-> PIPELINE_STEPS[q[i]].name]

----------------------------------------------------------------------------
\* Selection strings.  A --steps / --skip-steps value is modelled by the
\* sequence of its comma separated tokens; token NaN stands for a token that
\* int() rejects, every other token is the integer it parses to.  The empty
\* sequence stands for an absent (or empty, hence falsy) option.

NaN == 0

StepsInputs ==
    {<<>>, <<2>>, <<2, 1>>, <<2, 2>>, <<8>>, <<1, 8>>, <<NaN>>}

SkipInputs ==
    {<<>>, <<2>>, <<NaN, 1>>, <<1, 2, 3, 4, 5, 6, 7>>}

\* The (--steps, --skip-steps) pairs a run is started with: either option
\* alone, neither, and both together.
Selections ==
    {<<s, <<>>>> : s \in StepsInputs} \cup {<<<<>>, k>> : k \in SkipInputs}
        \cup {<<<<2>>, <<1, 2, 3, 4, 5, 6, 7>>>>}

\* int(s.strip()) raises ValueError for some token
ValueError(tokens) == \E i \in DOMAIN tokens : tokens[i] = NaN

RECURSIVE InsertSorted(_, _)
InsertSorted(x, q) ==
    IF q = <<>> THEN <<x>>
    ELSE IF x <= Head(q) THEN <<x>> \o q
    ELSE <<Head(q)>> \o InsertSorted(x, Tail(q))

\* Python's sorted() on a list of integers
RECURSIVE sorted(_)
sorted(q) == IF q = <<>> THEN <<>> ELSE InsertSorted(Head(q), sorted(Tail(q)))

\* [s for s in all_steps if s not in skip]
NotIn(skip) ==
    LET keep(s) == s \notin Range(skip) IN SelectSeq(all_steps, keep)

\* resuming after the failed step instead of at it
AtOrAfter_strict(resume_from) ==
    LET keep(s) == s > resume_from IN SelectSeq(all_steps, keep)

\* [s for s in all_steps if s >= resume_from]
AtOrAfter(resume_from) ==
    LET keep(s) == s >= resume_from IN SelectSeq(all_steps, keep)

\* resume_from = 0 stands for None (both are falsy)
get_steps_to_run(steps, skip_steps, resume_from) ==
    IF steps # <<>> THEN
        IF ValueError(steps) THEN all_steps ELSE sorted(steps)
    ELSE IF skip_steps # <<>> THEN
        IF ValueError(skip_steps) THEN all_steps ELSE NotIn(skip_steps)
    ELSE IF resume_from # 0 THEN AtOrAfter(resume_from)
    ELSE all_steps

----------------------------------------------------------------------------
\* Pipeline state management

\* started_at and step_timings, which no operation of the orchestrator reads
\* back to decide anything, are left out of the record.
create_initial_state ==
    [status          |-> "pending",
     completed_at    |-> None,
     completed_steps |-> <<>>,
     failed_step     |-> None,
     error           |-> None,
     costs           |-> "zero"]

\* load_json_file: None when the file is missing
load_pipeline_state == saved

\* update_step_success that forgets to record the step
update_step_success_no_append(st, step_name) ==
    [st EXCEPT !.failed_step = None, !.error = None]

\* update_step_success without the membership test of line 387
update_step_success_always_append(st, step_name) ==
    [st EXCEPT
        !.completed_steps = Append(@, step_name),
        !.failed_step = None,
        !.error = None]

update_step_success(st, step_name) ==
    [st EXCEPT
        !.completed_steps =
            IF step_name \in Range(@) THEN @ ELSE Append(@, step_name),
        !.failed_step = None,
        !.error = None]

\* update_step_failure that forgets which step failed
update_step_failure_no_step(st, step_name, error) ==
    [st EXCEPT !.status = "failed", !.error = error]

update_step_failure(st, step_name, error) ==
    [st EXCEPT !.status = "failed", !.failed_step = step_name, !.error = error]

----------------------------------------------------------------------------
\* Step execution

check_step_output_exists(step) ==
    IF step \notin Steps THEN FALSE
    ELSE IF PIPELINE_STEPS[step].output_check THEN step \in outputs
    ELSE FALSE

\* What can happen once run_step gets past its two early returns: the script
\* file is missing, or subprocess.run returns 0, returns non-zero, times out
\* or raises.
ScriptOutcomes == {"missing", "ok", "nonzero", "timeout", "exception"}

\* duration: 0 is the literal 0.0, 1 a measured time.time() difference;
\* called: subprocess.run was reached

\* return True, 0.0, None (lines 445 and 450)
NotRun == [success |-> TRUE, duration |-> 0, error |-> None, called |-> FALSE]

\* Variant of invoke_script in which the except Exception branch of lines
\* 492-494 returns no message
invoke_script_no_message(outcome) ==
    IF outcome = "missing" THEN
        [success |-> FALSE, duration |-> 0, error |-> "Script not found",
         called |-> FALSE]
    ELSE IF outcome = "ok" THEN
        [success |-> TRUE, duration |-> 1, error |-> None, called |-> TRUE]
    ELSE IF outcome = "nonzero" THEN
        [success |-> FALSE, duration |-> 1, error |-> "stderr", called |-> TRUE]
    ELSE IF outcome = "timeout" THEN
        [success |-> FALSE, duration |-> 1,
         error |-> "Step timed out after 10 minutes", called |-> TRUE]
    ELSE
        [success |-> FALSE, duration |-> 1, error |-> None, called |-> TRUE]

\* run_step, lines 452-494: locate the script and run it
invoke_script(outcome) ==
    IF outcome = "missing" THEN
        [success |-> FALSE, duration |-> 0, error |-> "Script not found",
         called |-> FALSE]
    ELSE IF outcome = "ok" THEN
        [success |-> TRUE, duration |-> 1, error |-> None, called |-> TRUE]
    ELSE IF outcome = "nonzero" THEN
        [success |-> FALSE, duration |-> 1, error |-> "stderr", called |-> TRUE]
    ELSE IF outcome = "timeout" THEN
        [success |-> FALSE, duration |-> 1,
         error |-> "Step timed out after 10 minutes", called |-> TRUE]
    ELSE
        [success |-> FALSE, duration |-> 1, error |-> "str(e)", called |-> TRUE]

\* run_step that runs the script although its output exists
run_step_no_probe(step, force, dry_run, outcome) ==
    IF dry_run THEN NotRun ELSE invoke_script(outcome)

\* run_step that runs the script although the run is a dry run
run_step_no_dry_run(step, force, dry_run, outcome) ==
    IF ~force /\ check_step_output_exists(step) THEN NotRun
    ELSE invoke_script(outcome)

run_step(step, force, dry_run, outcome) ==
    IF ~force /\ check_step_output_exists(step) THEN NotRun
    ELSE IF dry_run THEN NotRun
    ELSE invoke_script(outcome)

\* A stage script that exits 0 leaves its output file behind
ScriptEffect(step, r) ==
    IF r.called /\ r.success /\ PIPELINE_STEPS[step].output_check
    THEN outputs \cup {step} ELSE outputs

----------------------------------------------------------------------------
\* process_video

NoArgs ==
    [steps |-> <<>>, skip_steps |-> <<>>, resume |-> FALSE, force |-> FALSE,
     dry_run |-> FALSE, quiet |-> FALSE]

NoResult ==
    [success |-> FALSE, steps_completed |-> <<>>, steps_failed |-> <<>>,
     error |-> None, episode_file |-> None]

NoLast ==
    [step |-> 0, probe |-> FALSE, success |-> FALSE, duration |-> 0,
     error |-> None, called |-> FALSE]

\* prev when no fresh full run has just failed and saved its state
NoPrev == 0

\* the step number whose name is failed_step (0 when there is none)
StepNumberOf(name) ==
    IF \E s \in Steps : PIPELINE_STEPS[s].name = name
    THEN CHOOSE s \in Steps : PIPELINE_STEPS[s].name = name
    ELSE 0

\* lines 660-683: the state the run works on and the step it resumes from
LoadedState(resume) ==
    IF resume /\ load_pipeline_state # NoState
    THEN load_pipeline_state ELSE create_initial_state

ResumeFromStep(resume) ==
    IF resume /\ load_pipeline_state # NoState
       /\ load_pipeline_state.failed_step # None
    THEN StepNumberOf(load_pipeline_state.failed_step) ELSE 0

FreshFull(a) == a.steps = <<>> /\ a.skip_steps = <<>> /\ ~a.resume

\* What the run that just ended leaves for the next one to refer to: the
\* number of the step it failed at when it was a fresh full run (no --steps,
\* no --skip-steps, no --resume) that saved its state, else NoPrev.
Summary ==
    IF pc = "done" /\ FreshFull(args) /\ ~args.dry_run /\ result.steps_failed # <<>>
    THEN StepNumberOf(result.steps_failed[1].step) ELSE NoPrev

\* process_video, lines 650-694: load or create the state, plan, mark processing.
\* The name lookup of line 686 raises KeyError for a planned step that is
\* not in PIPELINE_STEPS (only evaluated when not quiet).
StartRun ==
    /\ pc = "idle"
    /\ runs < MaxRuns
    /\ \E sel \in Selections, resume \in BOOLEAN, force \in BOOLEAN,
          dry_run \in BOOLEAN, quiet \in BOOLEAN :
         LET plan == get_steps_to_run(sel[1], sel[2], ResumeFromStep(resume))
         IN  \* quiet only switches logging off, except for where KeyError is
             \* raised when the plan names an unknown step
             /\ quiet => ~(Range(plan) \subseteq Steps)
             /\ args' = [steps |-> sel[1], skip_steps |-> sel[2],
                         resume |-> resume, force |-> force,
                         dry_run |-> dry_run, quiet |-> quiet]
             /\ steps_to_run' = plan
             /\ IF ~quiet /\ ~(Range(plan) \subseteq Steps)
                THEN /\ pc' = "raised"
                     /\ state' = LoadedState(resume)
                ELSE /\ pc' = "running"
                     /\ state' = [LoadedState(resume) EXCEPT !.status = "processing"]
    /\ idx' = 1
    /\ result' = NoResult
    /\ invoked' = [s \in Steps |-> 0]
    /\ last' = NoLast
    /\ runs' = runs + 1
    /\ UNCHANGED <<saved, outputs, episode, prev>>
    /\ UNCHANGED <<posts, queueVars, batchVars, fileVars, monitorVars, retryVars>>

\* One iteration of the loop of lines 696-723.
RunStep ==
    /\ pc = "running"
    /\ idx <= Len(steps_to_run)
    /\ LET step == steps_to_run[idx] IN
       IF step \notin Steps THEN
          \* PIPELINE_STEPS[step]["name"] raises KeyError out of process_video
          /\ pc' = "raised"
          /\ UNCHANGED <<idx, state, result, saved, outputs, invoked, last>>
       ELSE
          \E outcome \in ScriptOutcomes :
            LET step_name == PIPELINE_STEPS[step].name
                r == run_step(step, args.force, args.dry_run, outcome)
            IN
            /\ invoked' = [invoked EXCEPT ![step] = @ + (IF r.called THEN 1 ELSE 0)]
            /\ outputs' = ScriptEffect(step, r)
            /\ last' = [step |-> step, probe |-> check_step_output_exists(step),
                        success |-> r.success, duration |-> r.duration,
                        error |-> r.error, called |-> r.called]
            /\ IF r.success THEN
                  /\ state' = update_step_success(state, step_name)
                  /\ result' = [result EXCEPT
                                  !.steps_completed = Append(@, step_name)]
                  /\ idx' = idx + 1
                  /\ pc' = "running"
                  /\ UNCHANGED saved
               ELSE
                  /\ state' = update_step_failure(state, step_name, r.error)
                  /\ result' = [result EXCEPT
                                  !.steps_failed =
                                      Append(@, [step |-> step_name, error |-> r.error]),
                                  !.error = <<step, step_name, r.error>>]
                  /\ saved' = IF ~args.dry_run
                              THEN update_step_failure(state, step_name, r.error)
                              ELSE saved
                  \* break; lines 725-753 only fill in the duration and log
                  /\ idx' = idx
                  /\ pc' = "done"
    /\ UNCHANGED <<args, steps_to_run, episode, prev, runs>>
    /\ UNCHANGED <<posts, queueVars, batchVars, fileVars, monitorVars, retryVars>>

\* Lines 725-753 after the loop ran to its end: every requested step
\* completed, so the episode package and the final state are written.
FinishRun ==
    /\ pc = "running"
    /\ idx > Len(steps_to_run)
    /\ result.steps_failed = <<>>
    /\ LET final == [state EXCEPT !.status = "completed", !.completed_at = "now"]
       IN
       IF ~args.dry_run THEN
          /\ episode' = [published |-> "no"]
          /\ state' = [final EXCEPT !.costs = "episode"]
          /\ saved' = [final EXCEPT !.costs = "episode"]
          /\ result' = [result EXCEPT !.success = TRUE, !.episode_file = "episode.json"]
       ELSE
          /\ state' = final
          /\ result' = [result EXCEPT !.success = TRUE]
          /\ UNCHANGED <<saved, episode>>
    /\ pc' = "done"
    /\ UNCHANGED <<args, steps_to_run, idx, outputs, invoked, last, prev, runs>>
    /\ UNCHANGED <<posts, queueVars, batchVars, fileVars, monitorVars, retryVars>>

\* process_video returns its result, or propagates its exception, to main:
\* its locals are gone, the files stay.
Return ==
    /\ pc \in {"done", "raised"}
    /\ pc' = "idle"
    /\ prev' = Summary
    /\ args' = NoArgs
    /\ steps_to_run' = <<>>
    /\ idx' = 1
    /\ state' = create_initial_state
    /\ result' = NoResult
    /\ invoked' = [s \in Steps |-> 0]
    /\ last' = NoLast
    /\ UNCHANGED <<saved, outputs, episode, runs>>
    /\ UNCHANGED <<posts, queueVars, batchVars, fileVars, monitorVars, retryVars>>

\* The process dies between two stages (kill, power loss): everything held in
\* memory is gone, the files stay as they are.
Crash ==
    /\ pc = "running"
    /\ pc' = "idle"
    /\ prev' = NoPrev
    /\ args' = NoArgs
    /\ steps_to_run' = <<>>
    /\ idx' = 1
    /\ state' = create_initial_state
    /\ result' = NoResult
    /\ invoked' = [s \in Steps |-> 0]
    /\ last' = NoLast
    /\ UNCHANGED <<saved, outputs, episode, runs>>
    /\ UNCHANGED <<posts, queueVars, batchVars, fileVars, monitorVars, retryVars>>

\* 10_wordpress_publish_v1.py --all between two runs of the pipeline:
\* find_unpublished_episodes (834-845) selects the episode file unless its
\* wordpress.published is true; publish_episode creates a post (776-784;
\* there is no --update and the client is not asked for an existing post);
\* update_episode_with_wordpress (805-820) records published and post_id.
publish_all ==
    /\ pc = "idle"
    /\ episode # NoFile
    /\ episode.published = "no"
    /\ posts' = posts + 1
    /\ episode' = [published |-> "yes", post_id |-> posts + 1]
    /\ UNCHANGED <<pc, args, steps_to_run, idx, state, result, saved, outputs,
                   invoked, last, prev, runs>>
    /\ UNCHANGED <<queueVars, batchVars, fileVars, monitorVars, retryVars>>

----------------------------------------------------------------------------
InitCLI ==
    /\ posts = 0
    /\ pc = "idle"
    /\ args = NoArgs
    /\ steps_to_run = <<>>
    /\ idx = 1
    /\ state = create_initial_state
    /\ result = NoResult
    /\ saved = NoState
    /\ outputs = {}
    /\ episode = NoFile
    /\ invoked = [s \in Steps |-> 0]
    /\ last = NoLast
    /\ prev = NoPrev
    /\ runs = 0

\* Queue worker: backend/app/workers/tasks.py and backend/app/api/sermons.py
\*
\* One sermon is followed.  A column of its row holds None or "set" (for
\* error_message: None or the text), a timestamp column 0 for NULL or the
\* number of the pipeline run that stamped it.

NoSermon == [status |-> "absent"]

\* Sermon(...) of create_sermon: status pending, every result column NULL
NewSermon ==
    [status                |-> "pending",
     error_message         |-> None,
     audio_url             |-> None,
     duration_seconds      |-> None,
     transcript_json       |-> None,
     formatted_transcript  |-> None,
     summary               |-> None,
     big_idea              |-> None,
     primary_scripture     |-> None,
     topics                |-> None,
     discussion_guide_json |-> None,
     ai_content_json       |-> None,
     discussion_guide_url  |-> None,
     processing_started_at |-> 0,
     published_at          |-> 0]

QueueNames == {"high", "default", "low"}

\* the three Queue objects, empty
NoJobs == [q \in QueueNames |-> <<>>]

\* the only job function ever enqueued
PipelineJob == "process_sermon_pipeline"

\* every job goes to the default queue
QueueFor_always_default(priority) == "default"

\* {"high": ..., "default": ..., "low": ...}.get(priority, default_queue)
QueueFor(priority) == IF priority \in QueueNames THEN priority ELSE "default"

\* enqueue_sermon_processing: the queues after queue.enqueue(...)
enqueue_sermon_processing(qs, priority) ==
    [qs EXCEPT ![QueueFor(priority)] = Append(@, PipelineJob)]

\* queue.enqueue either stores the job or raises (Redis unreachable)
EnqueueOutcomes == {"ok", "raises"}

\* What the last call was and how it ended: "ok" (a job was enqueued),
\* "raised" (queue.enqueue raised), "not_found" (no such sermon)
NoCall == [op |-> "none", priority |-> None, outcome |-> None]

EndOfCall(op, priority, outcome) ==
    [op |-> op, priority |-> priority, outcome |-> outcome]

\* create_sermon: insert the row as pending, then try to queue it; a failure
\* to queue is written to error_message and the request still succeeds
create_sermon ==
    /\ sermon = NoSermon
    /\ jobs < MaxJobs
    /\ \E o \in EnqueueOutcomes :
         /\ call' = EndOfCall("create_sermon", "default", o)
         /\ IF o = "ok"
            THEN /\ sermon' = NewSermon
                 /\ queue' = enqueue_sermon_processing(queue, "default")
                 /\ jobs' = jobs + 1
            ELSE /\ sermon' = [NewSermon EXCEPT !.error_message = "Failed to queue"]
                 /\ UNCHANGED <<queue, jobs>>
    /\ UNCHANGED <<qpc, qlocal, qtrace, qruns>>
    /\ UNCHANGED <<cliVars, batchVars, fileVars, monitorVars, retryVars>>

\* a reset that leaves the error text in place
reset_for_reprocess_keeps_error(s) == [s EXCEPT !.status = "pending"]

\* sermon.status = PENDING; sermon.error_message = None; db.commit()
reset_for_reprocess(s) ==
    [s EXCEPT !.status = "pending", !.error_message = None]

\* reprocess_sermon (POST /sermons/{id}/reprocess): 404 when there is no such
\* sermon; else reset status and error, commit, enqueue; when enqueue raises
\* the reset stays committed (HTTP 500)
reprocess_sermon ==
    /\ jobs < MaxJobs
    /\ IF sermon = NoSermon THEN
          /\ call' = EndOfCall("reprocess_sermon", "default", "not_found")
          /\ UNCHANGED <<sermon, queue, jobs>>
       ELSE
          /\ sermon' = reset_for_reprocess(sermon)
          /\ \E o \in EnqueueOutcomes :
               /\ call' = EndOfCall("reprocess_sermon", "default", o)
               /\ IF o = "ok"
                  THEN /\ queue' = enqueue_sermon_processing(queue, "default")
                       /\ jobs' = jobs + 1
                  ELSE UNCHANGED <<queue, jobs>>
    /\ UNCHANGED <<qpc, qlocal, qtrace, qruns>>
    /\ UNCHANGED <<cliVars, batchVars, fileVars, monitorVars, retryVars>>

\* reprocess_failed_sermon (tasks.py): nothing when there is no such sermon;
\* else the same reset and enqueue, an exception of enqueue leaving the
\* function after the commit
reprocess_failed_sermon ==
    /\ jobs < MaxJobs
    /\ IF sermon = NoSermon THEN
          /\ call' = EndOfCall("reprocess_failed_sermon", "default", "not_found")
          /\ UNCHANGED <<sermon, queue, jobs>>
       ELSE
          /\ sermon' = reset_for_reprocess(sermon)
          /\ \E o \in EnqueueOutcomes :
               /\ call' = EndOfCall("reprocess_failed_sermon", "default", o)
               /\ IF o = "ok"
                  THEN /\ queue' = enqueue_sermon_processing(queue, "default")
                       /\ jobs' = jobs + 1
                  ELSE UNCHANGED <<queue, jobs>>
    /\ UNCHANGED <<qpc, qlocal, qtrace, qruns>>
    /\ UNCHANGED <<cliVars, batchVars, fileVars, monitorVars, retryVars>>

\* the priorities a direct caller of enqueue_sermon_processing passes
Priorities == {"high", "default", "low", "urgent"}

\* enqueue_sermon_processing called on its own, with any priority; when
\* queue.enqueue raises, the exception leaves the function
enqueue_call ==
    /\ jobs < MaxJobs
    /\ \E priority \in Priorities, o \in EnqueueOutcomes :
         /\ call' = EndOfCall("enqueue_sermon_processing", priority, o)
         /\ IF o = "ok"
            THEN /\ queue' = enqueue_sermon_processing(queue, priority)
                 /\ jobs' = jobs + 1
            ELSE UNCHANGED <<queue, jobs>>
    /\ UNCHANGED <<sermon, qpc, qlocal, qtrace, qruns>>
    /\ UNCHANGED <<cliVars, batchVars, fileVars, monitorVars, retryVars>>

\* the queue the worker takes its next job from: run_worker listens on
\* high, default, low in that order
DequeueFrom ==
    IF queue["high"] # <<>> THEN "high"
    ELSE IF queue["default"] # <<>> THEN "default"
    ELSE "low"

\* The worker processes (python -m app.workers.worker) serving the queues.
\* Nothing in tasks.py or sermons.py ties a sermon to one worker; a worker
\* runs one job at a time.
Workers == {1, 2}

NoLocals == [raw_transcript |-> None, formatted_transcript |-> None,
             ai_content |-> None]

NoTrace == [called |-> {}, succeeded |-> {}, failed |-> {}, committed |-> None]

\* process_sermon_pipeline, lines 88-105: a worker takes a job, looks the
\* sermon up, and marks it processing.  Idle workers are interchangeable:
\* the job goes to the first of them.
StartPipeline(w) ==
    /\ qpc[w] = "idle"
    /\ \A v \in Workers : v < w => qpc[v] # "idle"
    /\ \E q \in QueueNames : queue[q] # <<>>
    /\ queue' = [queue EXCEPT ![DequeueFrom] = Tail(@)]
    /\ qruns' = qruns + 1
    /\ qlocal' = [qlocal EXCEPT ![w] = NoLocals]
    /\ IF sermon = NoSermon
       THEN \* "Sermon not found": return
            /\ qpc' = [qpc EXCEPT ![w] = "idle"]
            /\ qtrace' = [qtrace EXCEPT ![w] = NoTrace]
            /\ UNCHANGED sermon
       ELSE /\ qpc' = [qpc EXCEPT ![w] = "audio"]
            /\ qtrace' = [qtrace EXCEPT ![w] =
                                [NoTrace EXCEPT !.committed = "processing"]]
            /\ sermon' = [sermon EXCEPT !.status = "processing",
                                        !.processing_started_at = qruns + 1]
    /\ UNCHANGED jobs
    /\ UNCHANGED <<call, cliVars, batchVars, fileVars, monitorVars, retryVars>>

\* How a stage's block (the collaborator call and the reading of its result)
\* can end: normally, by the exception type the block catches, or by any
\* other exception.  The services process_sermon_audio, get_sermon_transcript,
\* process_sermon_ai_content and create_discussion_guide are declared
\* "async def" and called without await; subscripting the coroutine they
\* return raises TypeError (AttributeError for .get), an instance of the
\* outcome "Exception".
AudioOutcomes == {"ok", "AudioProcessorError", "Exception"}
TranscriptOutcomes == {"ok", "empty", "TranscriptError", "Exception"}
FormatOutcomes == {"ok", "empty", "Exception"}
AIOutcomes == {"ok", "no_guide", "AIExtractorError", "Exception"}
GuideOutcomes == {"ok", "Exception"}

Called(w, stage) == [qtrace EXCEPT ![w].called = @ \cup {stage}]
Succeeded(w, stage) ==
    [qtrace EXCEPT ![w].called = @ \cup {stage}, ![w].succeeded = @ \cup {stage}]
Failed(w, stage) ==
    [qtrace EXCEPT ![w].called = @ \cup {stage}, ![w].failed = @ \cup {stage}]

\* How the handler of lines 199-208 ends: it re-reads the row and commits
\* status failed, or its own query/commit raises (the session is unusable,
\* e.g. after a commit that failed in the stage, no rollback being issued)
\* and "except Exception: pass" swallows that.
HandlerOutcomes == {"committed", "swallowed"}

\* The except Exception handler of lines 199-208, entered from stage
PipelineFailed(w, stage, text) ==
    /\ qpc' = [qpc EXCEPT ![w] = "done"]
    /\ \E h \in HandlerOutcomes :
         IF h = "committed"
         THEN /\ sermon' = [sermon EXCEPT !.status = "failed",
                                          !.error_message = text]
              /\ qtrace' = [Failed(w, stage) EXCEPT ![w].committed = "failed"]
         ELSE /\ UNCHANGED sermon
              /\ qtrace' = Failed(w, stage)

\* What a run of process_sermon_pipeline hands back: the function has only
\* bare return statements (lines 95 and 120) and otherwise falls off its
\* end, so the caller gets None; a recoverable failure is only logged
\* (logger.warning, lines 131, 145, 168, 190). Written as a record whose
\* list of warnings is empty.
PipelineReturn == [warnings |-> {}]

\* Step 1, lines 107-120
ExtractAudio(w) ==
    /\ qpc[w] = "audio"
    /\ \E o \in AudioOutcomes :
         CASE o = "ok" ->
                /\ sermon' = [sermon EXCEPT !.audio_url = "set",
                                            !.duration_seconds = "set"]
                /\ qtrace' = Succeeded(w, "audio")
                /\ qpc' = [qpc EXCEPT ![w] = "transcript"]
           [] o = "AudioProcessorError" ->
                /\ sermon' = [sermon EXCEPT
                                !.status = "failed",
                                !.error_message = "Audio extraction failed: e"]
                /\ qtrace' = [Failed(w, "audio") EXCEPT ![w].committed = "failed"]
                /\ qpc' = [qpc EXCEPT ![w] = "done"]
           [] OTHER ->
                /\ PipelineFailed(w, "audio", "str(e)")
    /\ UNCHANGED <<queue, qlocal, qruns, jobs>>
    /\ UNCHANGED <<call, cliVars, batchVars, fileVars, monitorVars, retryVars>>

\* Step 2, lines 122-133; "empty" is a transcript whose full_text is ""
FetchTranscript(w) ==
    /\ qpc[w] = "transcript"
    /\ \E o \in TranscriptOutcomes :
         CASE o \in {"ok", "empty"} ->
                /\ sermon' = [sermon EXCEPT !.transcript_json = "set"]
                /\ qlocal' = [qlocal EXCEPT ![w].raw_transcript =
                                 IF o = "ok" THEN "text" ELSE ""]
                /\ qtrace' = Succeeded(w, "transcript")
                /\ qpc' = [qpc EXCEPT ![w] = "format"]
           [] o = "TranscriptError" ->
                /\ qlocal' = [qlocal EXCEPT ![w].raw_transcript = None]
                /\ qtrace' = Failed(w, "transcript")
                /\ qpc' = [qpc EXCEPT ![w] = "format"]
                /\ UNCHANGED sermon
           [] OTHER ->
                /\ PipelineFailed(w, "transcript", "str(e)")
                /\ UNCHANGED qlocal
    /\ UNCHANGED <<queue, qruns, jobs>>
    /\ UNCHANGED <<call, cliVars, batchVars, fileVars, monitorVars, retryVars>>

\* Python truthiness of an optional string
Truthy(v) == v # None /\ v # ""

\* Step 3, lines 135-148
FormatTranscript(w) ==
    /\ qpc[w] = "format"
    /\ IF Truthy(qlocal[w].raw_transcript) THEN
          \E o \in FormatOutcomes :
            IF o \in {"ok", "empty"} THEN
                /\ sermon' = [sermon EXCEPT !.formatted_transcript = "set"]
                /\ qlocal' = [qlocal EXCEPT ![w].formatted_transcript =
                                 IF o = "ok" THEN "text" ELSE ""]
                /\ qtrace' = Succeeded(w, "format")
            ELSE
                /\ qlocal' = [qlocal EXCEPT ![w].formatted_transcript =
                                 qlocal[w].raw_transcript]
                /\ qtrace' = Failed(w, "format")
                /\ UNCHANGED sermon
       ELSE
          /\ qlocal' = [qlocal EXCEPT ![w].formatted_transcript = None]
          /\ UNCHANGED <<sermon, qtrace>>
    /\ qpc' = [qpc EXCEPT ![w] = "ai_content"]
    /\ UNCHANGED <<queue, qruns, jobs>>
    /\ UNCHANGED <<call, cliVars, batchVars, fileVars, monitorVars, retryVars>>

\* Step 4, lines 150-171; "no_guide" is a result without discussion_guide
GenerateAIContent(w) ==
    /\ qpc[w] = "ai_content"
    /\ IF Truthy(qlocal[w].formatted_transcript) THEN
          \E o \in AIOutcomes :
            CASE o \in {"ok", "no_guide"} ->
                   /\ sermon' = [sermon EXCEPT
                         !.summary = "set", !.big_idea = "set",
                         !.primary_scripture = "set", !.topics = "set",
                         !.discussion_guide_json =
                             IF o = "ok" THEN "set" ELSE None,
                         !.ai_content_json = "set"]
                   /\ qlocal' = [qlocal EXCEPT ![w].ai_content =
                                    IF o = "ok" THEN "with_guide" ELSE "no_guide"]
                   /\ qtrace' = Succeeded(w, "ai_content")
                   /\ qpc' = [qpc EXCEPT ![w] = "guide"]
              [] o = "AIExtractorError" ->
                   /\ qlocal' = [qlocal EXCEPT ![w].ai_content = None]
                   /\ qtrace' = Failed(w, "ai_content")
                   /\ qpc' = [qpc EXCEPT ![w] = "guide"]
                   /\ UNCHANGED sermon
              [] OTHER ->
                   /\ PipelineFailed(w, "ai_content", "str(e)")
                   /\ UNCHANGED qlocal
       ELSE
          /\ qlocal' = [qlocal EXCEPT ![w].ai_content = None]
          /\ qpc' = [qpc EXCEPT ![w] = "guide"]
          /\ UNCHANGED <<sermon, qtrace>>
    /\ UNCHANGED <<queue, qruns, jobs>>
    /\ UNCHANGED <<call, cliVars, batchVars, fileVars, monitorVars, retryVars>>

\* Step 5, lines 173-190
GenerateGuide(w) ==
    /\ qpc[w] = "guide"
    /\ IF qlocal[w].ai_content = "with_guide" THEN
          \E o \in GuideOutcomes :
            IF o = "ok" THEN
                /\ sermon' = [sermon EXCEPT !.discussion_guide_url = "set"]
                /\ qtrace' = Succeeded(w, "guide")
            ELSE
                /\ qtrace' = Failed(w, "guide")
                /\ UNCHANGED sermon
       ELSE UNCHANGED <<sermon, qtrace>>
    /\ qpc' = [qpc EXCEPT ![w] = "publish"]
    /\ UNCHANGED <<queue, qlocal, qruns, jobs>>
    /\ UNCHANGED <<call, cliVars, batchVars, fileVars, monitorVars, retryVars>>

\* Lines 192-197: mark as published
Publish(w) ==
    /\ qpc[w] = "publish"
    /\ sermon' = [sermon EXCEPT !.status = "published", !.published_at = qruns]
    /\ qtrace' = [qtrace EXCEPT ![w].committed = "published"]
    /\ qpc' = [qpc EXCEPT ![w] = "done"]
    /\ UNCHANGED <<queue, qlocal, qruns, jobs>>
    /\ UNCHANGED <<call, cliVars, batchVars, fileVars, monitorVars, retryVars>>

\* finally: db.close(); the worker is free for the next job
EndPipeline(w) ==
    /\ qpc[w] = "done"
    /\ qpc' = [qpc EXCEPT ![w] = "idle"]
    /\ UNCHANGED <<sermon, queue, qlocal, qtrace, qruns, jobs>>
    /\ UNCHANGED <<call, cliVars, batchVars, fileVars, monitorVars, retryVars>>

InitQueue ==
    /\ sermon = NoSermon
    /\ queue = NoJobs
    /\ qpc = [w \in Workers |-> "idle"]
    /\ qlocal = [w \in Workers |-> NoLocals]
    /\ qtrace = [w \in Workers |-> NoTrace]
    /\ qruns = 0
    /\ jobs = 0
    /\ call = NoCall

----------------------------------------------------------------------------
\* Batch coordinator: main, process_videos_parallel, generate_pipeline_report
\* (docs/planning/scripts/09_full_pipeline_v1.py)
\*
\* A call of process_video is followed here only from its start to its end.
\* It ends in one of the three ways the single item model above ends in:
\* it returns a result with success true (pc = "done" after FinishRun), it
\* returns a result with success false (pc = "done" after a failed step), or
\* an exception leaves it (pc = "raised": KeyError of lines 686/697; equally
\* an OSError out of save_json_file at lines 717, 738, 745).

VideoIds == {"a", "b"}

Fates == {"success", "failed", "raises"}

\* values of --parallel: absent, and the integers argparse accepts
ParallelInputs == {0, -1, 1, 2}

\* args.parallel and len(video_ids) > 1
UsesPool == parallel # 0 /\ Len(video_ids) > 1

\* list positions whose process_video call is in progress
Active == {i \in DOMAIN video_ids : begun[i] > ended[i]}

\* the dict process_video returns; item is the list position the call was
\* made for (not a key of the dict: it tells the results of equal ids apart);
\* the error of a failed run is the text of line 713
ResultOf(i) ==
    [item     |-> i,
     video_id |-> video_ids[i],
     success  |-> fate[i] = "success",
     error    |-> IF fate[i] = "success" THEN None
                  ELSE "Step N (step_name) failed: error"]

\* the dict of lines 776-780
ExceptionResult(i) ==
    [item |-> i, video_id |-> video_ids[i], success |-> FALSE, error |-> "str(e)"]

\* no report has been generated
NoReport == [generated_at |-> "never"]

\* main has not returned
NoExit == -1

\* generate_pipeline_report: the counts of its "summary" and, as
\* failed_items, its list "failed" of video_id and error
generate_pipeline_report(rs) ==
    LET bad == SelectSeq(rs, LAMBDA r : ~r.success) IN
    [generated_at |-> "now",
     total_videos |-> Len(rs),
     successful   |-> Cardinality({k \in DOMAIN rs : rs[k].success}),
     failed       |-> Cardinality({k \in DOMAIN rs : ~rs[k].success}),
     failed_items |-> [k \in 1..Len(bad) |->
                         [video_id |-> bad[k].video_id, error |-> bad[k].error]]]

\* main, lines 929-992: determine the video ids and the mode.  With no video
\* id main returns 1; ThreadPoolExecutor(max_workers) raises ValueError for
\* max_workers <= 0, before anything is submitted.
main_start ==
    /\ mpc = "idle"
    /\ \E n \in 0..MaxVideos :
         \E ids \in [1..n -> VideoIds], f \in [1..n -> Fates],
            p \in ParallelInputs, dry_run \in BOOLEAN :
           /\ main_dry_run' = dry_run
           /\ video_ids' = ids
           /\ fate' = f
           /\ parallel' = p
           /\ begun' = [i \in 1..n |-> 0]
           /\ ended' = [i \in 1..n |-> 0]
           /\ IF n = 0 THEN mpc' = "returned" /\ exit_code' = 1
              ELSE /\ exit_code' = NoExit
                   /\ mpc' = IF p # 0 /\ n > 1
                             THEN (IF p <= 0 THEN "raised" ELSE "parallel")
                             ELSE "sequential"
    /\ yielded' = {}
    /\ results' = <<>>
    /\ report' = NoReport
    /\ UNCHANGED report_file
    /\ UNCHANGED <<cliVars, queueVars, fileVars, monitorVars, retryVars>>

\* lines 995-996: the for loop calls process_video for the next video id
sequential_call ==
    /\ mpc = "sequential"
    /\ Active = {}
    /\ Len(results) < Len(video_ids)
    /\ begun' = [begun EXCEPT ![Len(results) + 1] = @ + 1]
    /\ UNCHANGED <<mpc, video_ids, parallel, fate, ended, yielded, results,
                   report, exit_code, main_dry_run, report_file>>
    /\ UNCHANGED <<cliVars, queueVars, fileVars, monitorVars, retryVars>>

\* lines 996-1005: process_video returns and its result is appended, or its
\* exception leaves the loop and main
sequential_return ==
    /\ mpc = "sequential"
    /\ \E i \in Active :
         /\ ended' = [ended EXCEPT ![i] = @ + 1]
         /\ IF fate[i] = "raises"
            THEN mpc' = "raised" /\ UNCHANGED results
            ELSE mpc' = mpc /\ results' = Append(results, ResultOf(i))
    /\ UNCHANGED <<video_ids, parallel, fate, begun, yielded, report, exit_code,
                   main_dry_run, report_file>>
    /\ UNCHANGED <<cliVars, queueVars, fileVars, monitorVars, retryVars>>

\* a pool that starts a thread for every submitted call
IdleWorker_unbounded == TRUE

\* ThreadPoolExecutor(max_workers=max_workers): a submitted call starts only
\* while fewer than max_workers threads are busy
IdleWorker == Cardinality(Active) < parallel

\* lines 764-768: every video id was submitted in list order; a pool thread
\* takes the oldest call not yet begun and starts process_video
worker_start ==
    /\ mpc = "parallel"
    /\ IdleWorker
    /\ \E i \in DOMAIN video_ids :
         /\ begun[i] = 0
         /\ \A j \in 1..(i - 1) : begun[j] > 0
         /\ begun' = [begun EXCEPT ![i] = @ + 1]
    /\ UNCHANGED <<mpc, video_ids, parallel, fate, ended, yielded, results,
                   report, exit_code, main_dry_run, report_file>>
    /\ UNCHANGED <<cliVars, queueVars, fileVars, monitorVars, retryVars>>

\* process_video in a pool thread returns or raises: its future is done
worker_end ==
    /\ mpc = "parallel"
    /\ \E i \in Active : ended' = [ended EXCEPT ![i] = @ + 1]
    /\ UNCHANGED <<mpc, video_ids, parallel, fate, begun, yielded, results,
                   report, exit_code, main_dry_run, report_file>>
    /\ UNCHANGED <<cliVars, queueVars, fileVars, monitorVars, retryVars>>

\* lines 770-780: as_completed yields a future that is done; its result, or
\* a failed result made from its exception, is appended
as_completed_next ==
    /\ mpc = "parallel"
    /\ \E i \in DOMAIN video_ids \ yielded :
         /\ begun[i] > 0 /\ ended[i] = begun[i]
         /\ yielded' = yielded \cup {i}
         /\ results' = Append(results,
                IF fate[i] = "raises" THEN ExceptionResult(i) ELSE ResultOf(i))
    /\ UNCHANGED <<mpc, video_ids, parallel, fate, begun, ended, report, exit_code,
                   main_dry_run, report_file>>
    /\ UNCHANGED <<cliVars, queueVars, fileVars, monitorVars, retryVars>>

\* a main that saves its report in a dry run too
save_report_always(dry_run, old, new) == new

\* lines 1010-1013: pipeline_report.json is written unless the run is dry
save_report(dry_run, old, new) == IF dry_run THEN old ELSE new

\* What an earlier invocation of main, not a dry run, left in
\* pipeline_report.json: the report of a batch of one video that succeeded
EarlierReport == generate_pipeline_report(<<[item |-> 1, video_id |-> "a",
                                            success |-> TRUE, error |-> None]>>)

\* An earlier invocation of main has run before the one followed here
earlier_main ==
    /\ mpc = "idle"
    /\ report_file = NoReport
    /\ report_file' = EarlierReport
    /\ UNCHANGED <<mpc, video_ids, parallel, fate, begun, ended, yielded,
                   results, report, exit_code, main_dry_run>>
    /\ UNCHANGED <<cliVars, queueVars, fileVars, monitorVars, retryVars>>

\* lines 1007-1037: both modes have their results; generate the report and
\* return the exit code
main_report ==
    /\ \/ mpc = "sequential" /\ Active = {} /\ Len(results) = Len(video_ids)
       \/ mpc = "parallel" /\ yielded = DOMAIN video_ids
    /\ report' = generate_pipeline_report(results)
    /\ exit_code' = IF generate_pipeline_report(results).failed > 0 THEN 1 ELSE 0
    /\ mpc' = "returned"
    /\ report_file' = save_report(main_dry_run, report_file,
                                  generate_pipeline_report(results))
    /\ UNCHANGED <<video_ids, parallel, fate, begun, ended, yielded, results,
                   main_dry_run>>
    /\ UNCHANGED <<cliVars, queueVars, fileVars, monitorVars, retryVars>>

InitBatch ==
    /\ mpc = "idle"
    /\ main_dry_run = FALSE
    /\ report_file = NoReport
    /\ video_ids = <<>>
    /\ parallel = 0
    /\ fate = <<>>
    /\ begun = <<>>
    /\ ended = <<>>
    /\ yielded = {}
    /\ results = <<>>
    /\ report = NoReport
    /\ exit_code = NoExit

----------------------------------------------------------------------------
\* The state file: save_json_file and load_json_file, lines 248-261

\* The Pipeline States process_video saves: after a failed step (line 717)
\* and after the last step (line 745)
SavedStates ==
    {update_step_failure(create_initial_state, "audio", "stderr"),
     update_step_failure(
         update_step_success(create_initial_state, "audio"), "transcript", "stderr"),
     [update_step_success(create_initial_state, "audio") EXCEPT
         !.status = "completed", !.completed_at = "now", !.costs = "episode"]}

\* json.dump writes the text of a record piece by piece: the opening brace,
\* one piece per key, the closing brace.  What the file holds is the first
\* upto pieces of the text of data.
Keys == <<"status", "completed_at", "completed_steps", "failed_step",
          "error", "costs">>

DumpLen == Len(Keys) + 2

\* the path does not exist
Missing == [data |-> NoState, upto |-> -1]

\* open(filepath, 'w') has created or truncated the file
Empty == [data |-> NoState, upto |-> 0]

\* json.load of the file: FileNotFoundError and JSONDecodeError (an empty
\* or cut off text) give None, a whole text gives back its record
load_json_file(f) == IF f.upto = DumpLen THEN f.data ELSE NoState

NotLoaded == [at |-> "never", value |-> NoState, old |-> NoState, new |-> NoState]

\* save_json_file, line 260: open(filepath, 'w') truncates the file
save_open ==
    /\ fpc = "idle"
    /\ saves < MaxSaves
    /\ \E data \in SavedStates :
         /\ fnew' = data
         /\ fold' = load_json_file(file)
    /\ file' = Empty
    /\ fpc' = "open"
    /\ saves' = saves + 1
    /\ UNCHANGED loaded
    /\ UNCHANGED <<cliVars, queueVars, batchVars, monitorVars, retryVars>>

\* save_json_file, line 261: json.dump writes the next piece
save_write ==
    /\ fpc = "open"
    /\ file.upto < DumpLen
    /\ file' = [data |-> fnew, upto |-> file.upto + 1]
    /\ UNCHANGED <<fpc, fold, fnew, loaded, saves>>
    /\ UNCHANGED <<cliVars, queueVars, batchVars, monitorVars, retryVars>>

\* save_json_file: the with block closes the file after the last piece
save_close ==
    /\ fpc = "open"
    /\ file.upto = DumpLen
    /\ fpc' = "idle"
    /\ UNCHANGED <<file, fold, fnew, loaded, saves>>
    /\ UNCHANGED <<cliVars, queueVars, batchVars, monitorVars, retryVars>>

\* the saving process dies (kill, power loss): the file stays as it is
save_crash ==
    /\ fpc = "open"
    /\ fpc' = "crashed"
    /\ UNCHANGED <<file, fold, fnew, loaded, saves>>
    /\ UNCHANGED <<cliVars, queueVars, batchVars, monitorVars, retryVars>>

\* load_pipeline_state (line 358) of another run of the same video, or of
\* the next run after a crash
load_call ==
    /\ loaded' = [at |-> fpc, value |-> load_json_file(file),
                  old |-> fold, new |-> fnew]
    /\ UNCHANGED <<file, fpc, fold, fnew, saves>>
    /\ UNCHANGED <<cliVars, queueVars, batchVars, monitorVars, retryVars>>

\* the next run after a crash starts
restart ==
    /\ fpc = "crashed"
    /\ fpc' = "idle"
    /\ UNCHANGED <<file, fold, fnew, loaded, saves>>
    /\ UNCHANGED <<cliVars, queueVars, batchVars, monitorVars, retryVars>>

InitFile ==
    /\ file = Missing
    /\ fpc = "idle"
    /\ fold = NoState
    /\ fnew = NoState
    /\ loaded = NotLoaded
    /\ saves = 0

----------------------------------------------------------------------------
\* The feed monitor: monitor_youtube of 01_monitor_youtube_v1.py

Videos == {"v1", "v2", "v3"}

\* What parse_feed_entries returns: the videos of the feed in feed order,
\* each once
Feeds ==
    {q \in UNION {[1..n -> Videos] : n \in 0..Cardinality(Videos)} :
        \A i, j \in DOMAIN q : q[i] = q[j] => i = j}

\* --limit (type=int); 0 stands for an absent option as well (both falsy)
LimitInputs == {0, 1, 2, -1}

\* save_video_history: the file is written, or IOError is logged
HistorySaveOutcomes == {"ok", "IOError"}

\* lines 544-547: new_videos[:limit] when limit is truthy and exceeded
apply_limit(found, limit) ==
    IF limit # 0 /\ Len(found) > limit
    THEN IF limit > 0 THEN SubSeq(found, 1, limit)
         ELSE SubSeq(found, 1, Len(found) + limit)
    ELSE found

\* monitor_youtube, lines 475-595.  fetched = FALSE is fetch_rss_feed
\* returning None.
monitor_youtube ==
    /\ checks < MaxChecks
    /\ checks' = checks + 1
    /\ \E fetched \in BOOLEAN, feed_videos \in Feeds, full_scan \in BOOLEAN,
          limit \in LimitInputs, save \in HistorySaveOutcomes :
         IF ~fetched \/ feed_videos = <<>> THEN
            \* lines 513-529: return with "videos": [], nothing is saved
            /\ new_videos' = <<>>
            /\ UNCHANGED <<history, reports, appeared, full_scans>>
         ELSE
            LET seen_ids == IF full_scan THEN {} ELSE history
                found == SelectSeq(feed_videos, LAMBDA v : v \notin seen_ids)
                limited == apply_limit(found, limit)
                all_videos == seen_ids \cup Range(feed_videos)
            IN
            /\ new_videos' = limited
            /\ history' = IF save = "ok" THEN all_videos ELSE history
            /\ reports' = [v \in Videos |->
                              reports[v] + (IF v \in Range(limited) THEN 1 ELSE 0)]
            /\ appeared' = appeared \cup Range(feed_videos)
            /\ full_scans' = (full_scans \/ full_scan)
    /\ UNCHANGED <<cliVars, queueVars, batchVars, fileVars, retryVars>>

InitMonitor ==
    /\ history = {}
    /\ new_videos = <<>>
    /\ reports = [v \in Videos |-> 0]
    /\ appeared = {}
    /\ checks = 0
    /\ full_scans = FALSE

----------------------------------------------------------------------------
\* The transcript fetcher: fetch_transcript_with_retry of
\* 03_fetch_transcript_v1.py

\* the error types fetch_transcript sets (lines 285, 379, 457-486)
FetchErrorTypes ==
    {"dependency", "no_captions", "disabled", "unavailable", "network", "unknown"}

\* how a call of fetch_transcript ends: success, or a failure of some type
FetchEnds == {"success"} \cup FetchErrorTypes

\* a loop that retries every failure
PermanentErrors_none == {}

\* line 534: the error types that are not retried
PermanentErrors == {"no_captions", "disabled", "unavailable", "dependency"}

NotReturned == [success |-> FALSE, error_type |-> "pending"]

\* the caller passes max_retries (default 3)
retry_start ==
    /\ rpc = "idle"
    /\ \E m \in 0..MaxRetries : max_retries' = m
    /\ attempt' = 0
    /\ tried' = <<>>
    /\ retry_result' = NotReturned
    /\ rpc' = "loop"
    /\ UNCHANGED <<cliVars, queueVars, batchVars, fileVars, monitorVars>>

\* one iteration of "for attempt in range(max_retries)", lines 520-542
retry_attempt ==
    /\ rpc = "loop"
    /\ attempt < max_retries
    /\ \E end \in FetchEnds :
         /\ tried' = Append(tried, end)
         /\ IF end = "success" THEN
               /\ retry_result' = [success |-> TRUE, error_type |-> None]
               /\ rpc' = "returned"
               /\ UNCHANGED attempt
            ELSE IF end \in PermanentErrors THEN
               /\ retry_result' = [success |-> FALSE, error_type |-> end]
               /\ rpc' = "returned"
               /\ UNCHANGED attempt
            ELSE
               \* sleep unless this was the last attempt, then go on
               /\ attempt' = attempt + 1
               /\ UNCHANGED <<rpc, retry_result>>
    /\ UNCHANGED max_retries
    /\ UNCHANGED <<cliVars, queueVars, batchVars, fileVars, monitorVars>>

\* the loop has run out: lines 544-549
retry_exhausted ==
    /\ rpc = "loop"
    /\ attempt >= max_retries
    /\ retry_result' = [success |-> FALSE, error_type |-> "max_retries"]
    /\ rpc' = "returned"
    /\ UNCHANGED <<max_retries, attempt, tried>>
    /\ UNCHANGED <<cliVars, queueVars, batchVars, fileVars, monitorVars>>

\* the caller (process_videos, line 773; main, line 987) takes the result
retry_return ==
    /\ rpc = "returned"
    /\ rpc' = "idle"
    /\ UNCHANGED <<max_retries, attempt, tried, retry_result>>
    /\ UNCHANGED <<cliVars, queueVars, batchVars, fileVars, monitorVars>>

InitRetry ==
    /\ rpc = "idle"
    /\ max_retries = 0
    /\ attempt = 0
    /\ tried = <<>>
    /\ retry_result = NotReturned

----------------------------------------------------------------------------
Init == InitCLI /\ InitQueue /\ InitBatch /\ InitFile /\ InitMonitor /\ InitRetry

Next == StartRun \/ RunStep \/ FinishRun \/ Return \/ Crash \/ publish_all

Spec == Init /\ [][Next]_vars

NextQ ==
    \/ create_sermon \/ reprocess_sermon \/ reprocess_failed_sermon
    \/ enqueue_call
    \/ \E w \in Workers : StartPipeline(w)
    \/ \E w \in Workers : ExtractAudio(w)
    \/ \E w \in Workers : FetchTranscript(w)
    \/ \E w \in Workers : FormatTranscript(w)
    \/ \E w \in Workers : GenerateAIContent(w)
    \/ \E w \in Workers : GenerateGuide(w)
    \/ \E w \in Workers : Publish(w)
    \/ \E w \in Workers : EndPipeline(w)

SpecQueue == Init /\ [][NextQ]_vars

NextBatch ==
    \/ earlier_main
    \/ main_start \/ sequential_call \/ sequential_return
    \/ worker_start \/ worker_end \/ as_completed_next \/ main_report

SpecBatch == Init /\ [][NextBatch]_vars

NextFile ==
    save_open \/ save_write \/ save_close \/ save_crash \/ load_call \/ restart

SpecFile == Init /\ [][NextFile]_vars

SpecMonitor == Init /\ [][monitor_youtube]_vars

NextRetry == retry_start \/ retry_attempt \/ retry_exhausted \/ retry_return

\* fetch_transcript_with_retry is sequential code: while it is in its loop
\* its next statement is executed
SpecRetry ==
    Init /\ [][NextRetry]_vars
         /\ WF_vars(retry_attempt) /\ WF_vars(retry_exhausted)

\* The CLI program at its two levels: a behaviour follows main over its
\* batch, or one call of process_video stage by stage.
NextProgram == (InitBatch /\ Next) \/ (InitCLI /\ NextBatch)

SpecProgram == Init /\ [][NextProgram]_vars

\* The two item orchestrators side by side: a behaviour runs process_video
\* of the CLI or process_sermon_pipeline of the queue worker, never both
\* (they share neither files nor database).
NextOrchestrators == (InitQueue /\ Next) \/ (InitCLI /\ NextQ)

SpecOrchestrators == Init /\ [][NextOrchestrators]_vars

----------------------------------------------------------------------------
\* Properties of the CLI orchestrator (checked under Spec)

\* the run of process_video has left its loop by a failed step
FailedRun == pc = "done" /\ result.steps_failed # <<>>

\* the step number the run failed at
FailedAt == StepNumberOf(result.steps_failed[1].step)

SavedCompleted == IF saved = NoState THEN <<>> ELSE saved.completed_steps

NoSelection(a) == a.steps = <<>> /\ a.skip_steps = <<>>

\* C1: once run_step has reported failure for a planned step S the loop is
\* left: the steps run are exactly the plan up to S, S is the only failed
\* step, the result has success = false, and unless the run is a dry run the
\* saved Pipeline State has status failed, failed_step = name of S and
\* error = the failure text.
C1_FailureHalts ==
    (pc \in {"running", "done"} /\ last.step # 0 /\ ~last.success) =>
        /\ pc = "done"
        /\ steps_to_run[idx] = last.step
        /\ result.steps_completed = NamesOf(SubSeq(steps_to_run, 1, idx - 1))
        /\ Len(result.steps_failed) = 1
        /\ result.steps_failed[1].step = PIPELINE_STEPS[last.step].name
        /\ result.success = FALSE
        /\ ~args.dry_run =>
              /\ saved # NoState
              /\ saved.status = "failed"
              /\ saved.failed_step = PIPELINE_STEPS[last.step].name
              /\ saved.error = last.error

C1_Witness ==
    /\ FailedRun /\ ~args.dry_run
    /\ idx < Len(steps_to_run) /\ idx > 1
    /\ saved # NoState /\ saved.status = "failed"

\* C3: in a fresh full run (no --steps, no --skip-steps, no --resume) whose
\* first failing step is step N, the saved Pipeline State has completed_steps
\* = the names of steps 1..N-1 in registry order and failed_step = the name
\* of step N.
C3_FreshFailureState ==
    (FailedRun /\ FreshFull(args)) =>
        /\ saved # NoState
        /\ saved.completed_steps = NamesOf(SubSeq(all_steps, 1, FailedAt - 1))
        /\ saved.failed_step = PIPELINE_STEPS[FailedAt].name

C3_Witness ==
    FailedRun /\ FreshFull(args) /\ FailedAt >= 3 /\ saved # NoState

\* the run follows a fresh full run that saved failed_step = step prev, and
\* is itself a resume without --steps and --skip-steps
ResumeAfterFreshFailure ==
    /\ pc \in {"running", "done"}
    /\ prev # NoPrev
    /\ args.resume /\ NoSelection(args)

\* C4 (as stated): after a fresh full run saved failed_step = step N, the
\* following run with resume=true plans exactly steps N..last, and if all of
\* them succeed the saved state has status completed, failed_step and error
\* null and completed_steps = steps 1..last without duplicates.
C4_Original ==
    ResumeAfterFreshFailure =>
        /\ steps_to_run = SubSeq(all_steps, prev, Len(all_steps))
        /\ (pc = "done" /\ result.success) =>
              /\ saved.status = "completed"
              /\ saved.failed_step = None /\ saved.error = None
              /\ saved.completed_steps = NamesOf(all_steps)

\* C4 (amended): the same, for a resume run that is not a dry run.
C4_ResumeCompletes ==
    ResumeAfterFreshFailure =>
        /\ steps_to_run = SubSeq(all_steps, prev, Len(all_steps))
        /\ (pc = "done" /\ result.success /\ ~args.dry_run) =>
              /\ saved.status = "completed"
              /\ saved.failed_step = None /\ saved.error = None
              /\ saved.completed_steps = NamesOf(all_steps)

C4_Witness ==
    /\ ResumeAfterFreshFailure /\ prev >= 2
    /\ pc = "done" /\ result.success /\ ~args.dry_run

\* the loop iteration about to run finds the output of its step present
ProbePresent ==
    /\ pc = "running" /\ idx <= Len(steps_to_run)
    /\ steps_to_run[idx] \in Steps
    /\ check_step_output_exists(steps_to_run[idx])

\* C5: with force=false, a step whose output probe reports the output
\* present is run without any invocation of its script, is reported
\* successful with duration 0 and is recorded in completed_steps.
C5_SkipWhenOutputExists ==
    [][(ProbePresent /\ ~args.force /\ pc' # "idle") =>
          /\ invoked' = invoked
          /\ outputs' = outputs
          /\ last'.step = steps_to_run[idx]
          /\ last'.success /\ last'.duration = 0 /\ last'.error = None
          /\ PIPELINE_STEPS[steps_to_run[idx]].name \in Range(state'.completed_steps)
          /\ result'.steps_completed =
                Append(result.steps_completed, PIPELINE_STEPS[steps_to_run[idx]].name)
      ]_vars

C5_Witness ==
    /\ pc = "running" /\ last.step # 0 /\ last.probe
    /\ ~args.force /\ ~args.dry_run
    /\ last.success /\ invoked[last.step] = 0

\* C6: the Pipeline State is saved after every stage transition: at any
\* point between two stages of a run that is not a dry run (where a crash
\* may strike) the saved completed_steps contains every stage the run has
\* completed so far.
C6_SavedAfterEveryStage ==
    (pc = "running" /\ ~args.dry_run) =>
        Range(result.steps_completed) \subseteq Range(SavedCompleted)

\* C7: in every saved Pipeline State failed_step and error are both null
\* exactly when status is not failed, and both set when it is failed.
C7_FailedFieldsMatchStatus ==
    saved # NoState =>
        IF saved.status = "failed"
        THEN saved.failed_step # None /\ saved.error # None
        ELSE saved.failed_step = None /\ saved.error = None

\* C9: with force=true and dry_run=false, every planned stage whose output
\* is present has had its script invoked exactly once when the run ends.
C9_ForceInvokesOnce ==
    (pc = "done" /\ args.force /\ ~args.dry_run) =>
        \A s \in Range(steps_to_run) \cap Steps :
            check_step_output_exists(s) => invoked[s] = 1

\* the plan the selection of the run asks for, stated without get_steps_to_run
PlanAsSelected ==
    /\ \A i \in 1..(Len(steps_to_run) - 1) : steps_to_run[i] <= steps_to_run[i + 1]
    /\ (args.steps # <<>> /\ ~ValueError(args.steps)) =>
          /\ Len(steps_to_run) = Len(args.steps)
          /\ Range(steps_to_run) = Range(args.steps)
    /\ (args.steps = <<>> /\ args.skip_steps # <<>> /\ ~ValueError(args.skip_steps)) =>
          /\ Range(steps_to_run) = Steps \ Range(args.skip_steps)
          /\ Len(steps_to_run) = Cardinality(Steps \ Range(args.skip_steps))
    /\ (NoSelection(args) /\ args.resume /\ saved # NoState /\ saved.failed_step # None) =>
          /\ Range(steps_to_run) = {s \in Steps : s >= StepNumberOf(saved.failed_step)}
          /\ Len(steps_to_run) = Cardinality(Range(steps_to_run))
    /\ (NoSelection(args) /\ ~(args.resume /\ saved # NoState /\ saved.failed_step # None)) =>
          steps_to_run = all_steps

\* C10: with dry_run=true no stage script is invoked, whatever the probes
\* report, and the stages reported as completed are exactly the planned
\* stages (full, --steps, --skip-steps or resume plan) in plan order.
C10_DryRunNoOp ==
    args.dry_run =>
        /\ \A s \in Steps : invoked[s] = 0
        /\ result.steps_failed = <<>>
        /\ pc = "done" =>
              /\ result.success
              /\ result.steps_completed = NamesOf(steps_to_run)
              /\ PlanAsSelected

C10_Witness ==
    /\ args.dry_run /\ pc = "done"
    /\ Len(steps_to_run) >= 2
    /\ \E s \in Range(steps_to_run) : ~check_step_output_exists(s)
    /\ \E s \in Range(steps_to_run) : check_step_output_exists(s)

\* the selection names something that is not a step of the registry
NamesUnknownStage(a) ==
    \/ \E i \in DOMAIN a.steps : a.steps[i] \notin Steps
    \/ \E i \in DOMAIN a.skip_steps : a.skip_steps[i] \notin Steps

\* C16: a --steps or --skip-steps selection that names a stage outside the
\* registry (an unknown number or a non-numeric token) is rejected before
\* any stage runs: the run never gets to run a stage, whatever plan.
C16_UnknownStageRejected ==
    (pc # "idle" /\ NamesUnknownStage(args)) =>
        /\ pc = "raised"
        /\ last.step = 0
        /\ result.steps_completed = <<>>

\* process_video has planned and has not yet run a step
JustStarted == pc \in {"running", "raised"} /\ idx = 1 /\ last.step = 0

\* there is no saved state, or it has no failed_step
NoPriorFailure == saved = NoState \/ saved.failed_step = None

\* C17: a resume request (without --steps and --skip-steps) for an item with
\* no saved Pipeline State, or whose saved state has no failed_step, plans
\* the full stage list and starts from a fresh initial state.
C17_ResumeStartsFresh ==
    (JustStarted /\ pc = "running" /\ args.resume /\ NoSelection(args)
        /\ NoPriorFailure) =>
        /\ steps_to_run = all_steps
        /\ state = [create_initial_state EXCEPT !.status = "processing"]

\* C18: a resume request for an item that has no prior failure to resume
\* from is rejected before any stage runs.
C18_ResumeWithoutFailureRejected ==
    (JustStarted /\ args.resume /\ NoPriorFailure) => pc = "raised"

----------------------------------------------------------------------------
\* Properties of the queue worker (checked under SpecQueue)


\* C2: once audio extraction has succeeded in a run, no failure of a later
\* stage makes the run commit status failed, and the run ends by committing
\* status published.
C2_LaterFailuresRecoverable ==
    \A w \in Workers :
        ("audio" \in qtrace[w].succeeded) =>
            /\ qtrace[w].committed # "failed"
            /\ qpc[w] = "done" => qtrace[w].committed = "published"

\* the result columns that transcript formatting, AI content generation and
\* the discussion guide fill in
ContentNull ==
    /\ sermon.formatted_transcript = None
    /\ sermon.summary = None
    /\ sermon.big_idea = None
    /\ sermon.primary_scripture = None
    /\ sermon.topics = None
    /\ sermon.discussion_guide_json = None
    /\ sermon.discussion_guide_url = None

\* C8: a run in which transcript retrieval fails invokes neither transcript
\* formatting nor AI content generation nor PDF rendering, and ends with the
\* sermon published, its audio columns populated and its content columns null.
C8_TranscriptFailureDegrades ==
    \A w \in Workers :
        ("transcript" \in qtrace[w].failed) =>
            /\ qtrace[w].called \cap {"format", "ai_content", "guide"} = {}
            /\ qpc[w] = "done" =>
                  /\ qtrace[w].committed = "published"
                  /\ sermon.audio_url # None /\ sermon.duration_seconds # None
                  /\ ContentNull

\* the pipeline runs in progress
ActiveRuns == {w \in Workers : qpc[w] # "idle"}

\* C14: at most one run of process_sermon_pipeline is active for the sermon
\* at any time.
C14_SingleRunPerSermon == Cardinality(ActiveRuns) <= 1

AllowedTransitions ==
    {<<"pending", "processing">>, <<"processing", "published">>,
     <<"processing", "failed">>, <<"failed", "pending">>}

\* C15: the status of an existing sermon only ever changes along pending ->
\* processing, processing -> published, processing -> failed and failed ->
\* pending, and published is set only by a run whose audio extraction
\* succeeded and that met no fatal failure.
C15_StatusTransitions ==
    [][(sermon # NoSermon /\ sermon'.status # sermon.status) =>
          /\ <<sermon.status, sermon'.status>> \in AllowedTransitions
          /\ sermon'.status = "published" =>
                \E w \in Workers :
                    /\ qpc[w] = "publish"
                    /\ "audio" \in qtrace[w].succeeded
                    /\ qtrace[w].committed # "failed"
      ]_vars

\* a step of one of the two reprocess operations
ReprocessStep == reprocess_sermon \/ reprocess_failed_sermon

EnqueueStep ==
    create_sermon \/ reprocess_sermon \/ reprocess_failed_sermon \/ enqueue_call

----------------------------------------------------------------------------
\* Properties of the batch coordinator (checked under SpecBatch)

\* main has ended, by returning or by an exception
MainEnded == mpc \in {"returned", "raised"}

\* the results main holds for list position i
ResultsFor(i) == {k \in DOMAIN results : results[k].item = i}

\* item i reached the terminal result its process_video call reaches when
\* run alone: the call was made once and ran to its end, and the result it
\* returned (when it returned one) is in the results exactly once
ReachedOwnResult(i) ==
    /\ begun[i] = 1 /\ ended[i] = 1
    /\ fate[i] # "raises" =>
          /\ Cardinality(ResultsFor(i)) = 1
          /\ \A k \in ResultsFor(i) : results[k] = ResultOf(i)

\* item i's run failed
ItemFailed(i) == ended[i] > 0 /\ fate[i] # "success"

\* C11: for every batch run by main, sequential or parallel, in which some
\* item K fails, every other item reaches the terminal result it would reach
\* when run alone, and the report has total_videos = number of input ids,
\* failed = number of items whose run failed, successful = total - failed.
C11_BatchIndependence ==
    (MainEnded /\ \E K \in DOMAIN video_ids : ItemFailed(K)) =>
        /\ \A K \in DOMAIN video_ids :
              ItemFailed(K) =>
                  \A i \in DOMAIN video_ids \ {K} : ReachedOwnResult(i)
        /\ report # NoReport
        /\ report.total_videos = Len(video_ids)
        /\ report.failed =
              Cardinality({i \in DOMAIN video_ids : fate[i] # "success"})
        /\ report.successful = report.total_videos - report.failed

\* C12: in sequential mode main processes the items one at a time in input
\* order and collects their results in that order, and a failure while
\* processing one item, an exception out of process_video included, never
\* prevents the remaining items from being processed and reported.
C12_SequentialNeverAborts ==
    (Len(video_ids) > 0 /\ ~UsesPool) =>
        /\ Cardinality(Active) <= 1
        /\ \A i \in DOMAIN video_ids :
              begun[i] > 0 => \A j \in 1..(i - 1) : ended[j] = 1
        /\ \A k \in DOMAIN results : results[k].item = k
        /\ MainEnded =>
              /\ \A i \in DOMAIN video_ids : begun[i] = 1 /\ ended[i] = 1
              /\ report # NoReport
              /\ report.total_videos = Len(video_ids)

\* process_videos_parallel has every future collected (it returns results)
PoolReturned == UsesPool /\ parallel > 0 /\ yielded = DOMAIN video_ids

\* C13: in process_videos_parallel at most max_workers items are being
\* processed at any moment, process_video is run exactly once from start to
\* end for every submitted entry of video_ids, and the returned list has
\* exactly one result per submitted entry, an exception raised in a worker
\* being turned into a failed result for that video id.
C13_BoundedPool ==
    (UsesPool /\ parallel > 0) =>
        /\ Cardinality(Active) <= parallel
        /\ \A i \in DOMAIN video_ids : begun[i] <= 1 /\ ended[i] <= begun[i]
        /\ PoolReturned =>
              /\ Len(results) = Len(video_ids)
              /\ \A i \in DOMAIN video_ids :
                    /\ begun[i] = 1 /\ ended[i] = 1
                    /\ Cardinality(ResultsFor(i)) = 1
                    /\ \A k \in ResultsFor(i) :
                          /\ results[k].video_id = video_ids[i]
                          /\ results[k].success = (fate[i] = "success")
                          /\ fate[i] = "raises" => results[k].error = "str(e)"

C13_Witness ==
    /\ PoolReturned /\ mpc = "returned"
    /\ parallel = 2 /\ Len(video_ids) = 3
    /\ \E i \in DOMAIN video_ids : fate[i] = "raises"
    /\ \E i \in DOMAIN video_ids : fate[i] = "success"
    /\ results[1].item # 1

\* ---------------------------------------------------------------------
\* Claims about failures of the queue pipeline (specification SpecQueue)
\* ---------------------------------------------------------------------

\* The step of worker w in which the audio block of lines 107-120 fails
AudioFails(w) == qpc[w] = "audio" /\ qpc'[w] = "done"

\* C21: when audio extraction fails, no later collaborator is invoked in
\* that run, and the run leaves the sermon with status failed and an
\* error_message that names the audio stage and carries the error text.
C21_AudioFailureFatal ==
    [][\A w \in Workers :
         AudioFails(w) =>
            /\ qtrace'[w].called = {"audio"}
            /\ sermon'.status = "failed"
            /\ sermon'.error_message = "Audio extraction failed: e"]_vars

\* ---------------------------------------------------------------------
\* Claims about both orchestrators (specification SpecOrchestrators)
\* ---------------------------------------------------------------------

\* The step of process_video in which run_step reports a failed stage
StageFailsInRunStep ==
    pc = "running" /\ last' # last /\ last'.step \in Steps /\ ~last'.success

\* The step of worker w in which a collaborator call of the pipeline raises
CollaboratorRaises(w) == ~(qtrace'[w].failed \subseteq qtrace[w].failed)

EndedPublished(w) == qpc[w] = "done" /\ qtrace[w].committed = "published"

\* C23: a recoverable stage failure in a run that ends published is an entry
\* of the list of recoverable failures in that run's result, and is not
\* written to the sermon's error_message.
C23_RecoverableFailuresListed ==
    /\ [](\A w \in Workers :
            EndedPublished(w) =>
                qtrace[w].failed \subseteq PipelineReturn.warnings)
    /\ [][\A w \in Workers :
            (CollaboratorRaises(w) /\ qpc'[w] # "done") =>
                sermon'.error_message = sermon.error_message]_vars

\* ---------------------------------------------------------------------
\* Further claims about the CLI orchestrator (specification Spec)
\* ---------------------------------------------------------------------

\* run_step ended the stage script because it ran longer than its limit
TimedOutByRunStep ==
    last.called /\ ~last.success /\ last.error = "Step timed out after 10 minutes"

\* C24: run_step imposes no time limit of its own: it never fails or
\* cancels a stage because the stage is still running.
C24_NoStageTimeout == ~TimedOutByRunStep

\* ---------------------------------------------------------------------
\* Further claims about main (specification SpecBatch)
\* ---------------------------------------------------------------------

\* main has returned an exit code
MainReturned == mpc = "returned"

\* the error text names the stage that failed (the text of line 713)
NamesStage(error) == error = "Step N (step_name) failed: error"

\* C25: main returns 0 exactly when at least one video was processed and no
\* item failed, and 1 otherwise; and every failed item of the report
\* carries an error text that names the stage at which it failed.
C25_ExitCodeAndErrors ==
    MainReturned =>
        /\ exit_code \in {0, 1}
        /\ exit_code = 0 <=>
              /\ Len(video_ids) >= 1
              /\ \A i \in DOMAIN video_ids : fate[i] = "success"
        /\ report # NoReport =>
              \A k \in DOMAIN report.failed_items :
                  NamesStage(report.failed_items[k].error)

\* ---------------------------------------------------------------------
\* Claims about the order of stages in process_video (specification Spec)
\* ---------------------------------------------------------------------

StrictlyIncreasing(q) == \A i, j \in DOMAIN q : i < j => q[i] < q[j]

\* the names of the stages the run has attempted so far, in order
Attempted ==
    result.steps_completed \o
        [k \in DOMAIN result.steps_failed |-> result.steps_failed[k].step]

\* C26: within one run of process_video the stages are executed in strictly
\* increasing registry order, exactly in the planned order, each planned
\* stage is attempted at most once and a failed stage is not retried, for
\* every --steps / --skip-steps / resume selection.
C26_PlannedOrderOnce ==
    pc \in {"running", "done"} =>
        /\ StrictlyIncreasing(steps_to_run)
        /\ Len(Attempted) <= Len(steps_to_run)
        /\ \A k \in DOMAIN Attempted :
              /\ steps_to_run[k] \in Steps
              /\ Attempted[k] = PIPELINE_STEPS[steps_to_run[k]].name
        /\ \A s \in Steps : invoked[s] <= 1
        /\ Len(result.steps_failed) <= 1

\* ---------------------------------------------------------------------
\* Claims about the state file (specification SpecFile)
\* ---------------------------------------------------------------------

\* A load_json_file made while a save was in progress, or after the saving
\* process died
LoadedAroundSave == loaded.at \in {"open", "crashed"}

\* C27: save_pipeline_state replaces the whole record atomically: a load at
\* any moment during a save, or after a crash during a save, gets the
\* complete record the file held before the save or the complete new one.
C27_AtomicSave ==
    LoadedAroundSave => loaded.value \in {loaded.old, loaded.new}

\* ---------------------------------------------------------------------
\* Claims about completed_steps (specification Spec)
\* ---------------------------------------------------------------------

NoDuplicates(q) == \A i, j \in DOMAIN q : q[i] = q[j] => i = j

\* C28: completed_steps of the Pipeline State, in memory and saved, never
\* contains a stage name twice, whatever fresh, resumed, forced, dry and
\* selected runs came before, runs that skip a stage for its existing
\* output included.
C28_CompletedStepsNoDuplicates ==
    /\ NoDuplicates(state.completed_steps)
    /\ saved # NoState => NoDuplicates(saved.completed_steps)

\* A run that completed the same stage twice (--steps 2,2), the second
\* time by the output-exists skip, and saved its state
C28_Witness ==
    /\ pc = "done" /\ result.success /\ ~args.dry_run
    /\ saved = state
    /\ Len(result.steps_completed) = 2
    /\ result.steps_completed[1] = result.steps_completed[2]
    /\ ~last.called /\ last.probe

\* ---------------------------------------------------------------------
\* Claims about how a queue pipeline run ends (specification SpecQueue)
\* ---------------------------------------------------------------------

\* C29: a run of process_sermon_pipeline that has set status processing
\* ends with published or failed as the status it committed last, never
\* with processing, when every collaborator call returns or raises.
C29_RunEndsPublishedOrFailed ==
    \A w \in Workers :
        qpc[w] = "done" => qtrace[w].committed \in {"published", "failed"}

\* The step of worker w that calls process_sermon_audio
CallsAudio(w) == "audio" \notin qtrace[w].called /\ "audio" \in qtrace'[w].called

\* C30: a run of the pipeline for a sermon whose audio_url is already
\* populated (a run after a reprocess) does not call the audio
\* collaborator again: a stage whose output is present is skipped.
C30_SkipIfDone ==
    [][\A w \in Workers :
         (sermon # NoSermon /\ sermon.audio_url # None) => ~CallsAudio(w)]_vars

\* ---------------------------------------------------------------------
\* Claims about what later runs keep (specification SpecQueue)
\* ---------------------------------------------------------------------

\* C31: processing_started_at is stamped on the sermon's first run only: a
\* later run of the same sermon leaves the stamp it finds unchanged.
C31_StartStampedOnce ==
    [][(sermon # NoSermon /\ sermon.processing_started_at # 0) =>
           (sermon' # NoSermon /\
            sermon'.processing_started_at = sermon.processing_started_at)]_vars

\* ---------------------------------------------------------------------
\* Claims about repeated runs of process_video (specification Spec)
\* ---------------------------------------------------------------------

\* the stage names the Pipeline State held when the current run loaded it
\* (the state file does not change while the run is in its loop)
LoadedCompleted == Range(LoadedState(args.resume).completed_steps)

\* C32: in a run without force no stage whose name is in completed_steps of
\* the loaded Pipeline State has its script invoked again, pinecone, which
\* has no output file to probe, included.
C32_CompletedNotReinvoked ==
    [][(pc = "running" /\ ~args.force) =>
          \A s \in Steps :
              PIPELINE_STEPS[s].name \in LoadedCompleted =>
                  invoked'[s] <= invoked[s]]_vars

\* C33: a published sermon has no error_message, after any sequence of
\* create_sermon, pipeline runs and reprocess calls, a reprocess issued
\* while an earlier job of the sermon is queued or running included.
C33_PublishedHasNoError ==
    (sermon # NoSermon /\ sermon.status = "published") =>
        sermon.error_message = None

\* ---------------------------------------------------------------------
\* Claims about concurrent runs in a batch (specification SpecBatch)
\* ---------------------------------------------------------------------

\* C34: in a parallel batch no two pool threads run process_video for the
\* same video id at the same time, for every id list main accepts.
C34_OneRunPerVideo ==
    \A i, j \in Active : video_ids[i] = video_ids[j] => i = j

\* ---------------------------------------------------------------------
\* Claims about the whole CLI program (specification SpecProgram)
\* ---------------------------------------------------------------------

\* C35: a dry run writes nothing durable: no step of a dry run of
\* process_video changes the saved Pipeline State or the episode package,
\* and no step of a dry run of main changes pipeline_report.json, whether
\* the run succeeds or fails.
C35_DryRunWritesNothing ==
    [][/\ args.dry_run => (saved' = saved /\ episode' = episode)
       /\ main_dry_run => report_file' = report_file]_vars

\* A dry run of main has generated its report and returned, and
\* pipeline_report.json still holds the report of the earlier invocation
C35_Witness ==
    /\ mpc = "returned" /\ main_dry_run
    /\ report # NoReport
    /\ report_file = EarlierReport
    /\ report_file # report

\* ---------------------------------------------------------------------
\* Claims about the episode package and WordPress (specification Spec)
\* ---------------------------------------------------------------------

\* the episode file records a WordPress post
PublishedToWordPress == episode # NoFile /\ episode.published = "yes"

\* C36: once the episode file records wordpress.published = true with a
\* post_id, the record survives every later pipeline run of the video, so
\* a later publish --all never creates a second post for it.
C36_PublishedRecordSurvives ==
    /\ [][PublishedToWordPress => episode' = episode]_vars
    /\ [](posts <= 1)

\* ---------------------------------------------------------------------
\* Claims about get_steps_to_run (specification Spec, whose StartRun
\* applies it to every selection of Selections and every loaded state)
\* ---------------------------------------------------------------------

NonDecreasing(q) == \A i \in 1..(Len(q) - 1) : q[i] <= q[i + 1]

\* q holds exactly the elements of set S, each once
ListsOnce(q, S) == Range(q) = S /\ Len(q) = Cardinality(S)

\* q holds the tokens of list l, each as often as l does
SameTokens(q, l) ==
    /\ Len(q) = Len(l)
    /\ \A x \in Range(q) \cup Range(l) :
          Cardinality({i \in DOMAIN q : q[i] = x}) =
              Cardinality({i \in DOMAIN l : l[i] = x})

\* C37: get_steps_to_run applies one selector, --steps before --skip-steps
\* before resume: the listed steps sorted ascending when steps is given;
\* else the registry steps not listed in skip_steps when that is given;
\* else the registry steps from resume_from on when that is given; else all
\* registry steps in order.
C37_SelectorPrecedence ==
    pc = "running" =>
        /\ NonDecreasing(steps_to_run)
        /\ IF args.steps # <<>> THEN
              SameTokens(steps_to_run, args.steps)
           ELSE IF args.skip_steps # <<>> THEN
              ListsOnce(steps_to_run, Steps \ Range(args.skip_steps))
           ELSE IF ResumeFromStep(args.resume) # 0 THEN
              ListsOnce(steps_to_run,
                        {s \in Steps : s >= ResumeFromStep(args.resume)})
           ELSE steps_to_run = all_steps


\* C38: over runs of monitor_youtube without --full-scan, whatever --limit
\* each run is given, every video that has appeared in a fetched feed is
\* reported as new by exactly one run once the runs have seen it: a video
\* recorded in the history has been reported once, and no video is reported
\* twice.
C38_EachVideoReportedOnce ==
    ~full_scans =>
        /\ \A v \in history : reports[v] = 1
        /\ \A v \in Videos : reports[v] <= 1


\* the error types the retry loop is said to give up on at once
GivesUpOn == {"no_captions", "disabled", "unavailable", "dependency"}

\* the calls before the last one all failed with an error that is retried
EarlierRetried ==
    \A i \in 1..(Len(tried) - 1) : tried[i] \notin GivesUpOn \cup {"success"}

\* C39: fetch_transcript_with_retry calls fetch_transcript at most
\* max_retries times and always returns; what it returns is the first
\* successful result, or the failure of a permanent type (no_captions,
\* disabled, unavailable, dependency) right after the call that produced it,
\* or else a failure of type max_retries after exactly max_retries calls
\* that all failed with a retried error.
C39_RetryTerminates ==
    /\ [](Len(tried) <= max_retries)
    /\ [](rpc = "returned" =>
            \/ /\ retry_result.success
               /\ Len(tried) >= 1
               /\ tried[Len(tried)] = "success"
               /\ EarlierRetried
            \/ /\ ~retry_result.success
               /\ retry_result.error_type \in GivesUpOn
               /\ Len(tried) >= 1
               /\ tried[Len(tried)] = retry_result.error_type
               /\ EarlierRetried
            \/ /\ ~retry_result.success
               /\ retry_result.error_type = "max_retries"
               /\ Len(tried) = max_retries
               /\ \A i \in 1..Len(tried) : tried[i] \notin GivesUpOn \cup {"success"})
    /\ (rpc = "loop" ~> rpc = "returned")

\* three transient failures in a row with max_retries = 3: the loop runs out
C39_Witness ==
    /\ rpc = "returned"
    /\ max_retries = 3
    /\ tried = <<"network", "unknown", "network">>
    /\ retry_result.error_type = "max_retries"

====
